---- MODULE Spec2Model ----
(***************************************************************************)
(* evblog (src/main.rs): markdown documents to static HTML pages, and a    *)
(* date-sorted, tag-grouped index page for a directory of documents.       *)
(*                                                                         *)
(* Text is a sequence of tokens.  A token stands for a run of characters   *)
(* that the program never looks inside: the marker <!-- metadata, the      *)
(* closing line -->, the newline,   other text, and one TOML key/value     *)
(* line.  A file is a token sequence; a path is [stem, ext].               *)
(***************************************************************************)
EXTENDS Integers, Sequences, FiniteSets, TLC

VARIABLES
    pc,            \* position in main()
    cli,           \* the parsed command line (Cli)
    input_kind,    \* what cli.input names: "dir", "file" or "missing"
    disk,          \* path -> [present, data]
    unreadable,    \* paths whose read fails
    unwritable,    \* paths whose write fails
    entries,       \* fs::read_dir(&cli.input), in enumeration order
    idx,           \* next entry of the read_dir loop
    article_data,  \* Vec<Metadata>
    index_config,  \* IndexConfig loaded by IndexConfig::open
    exit_status,   \* process exit status, once the process has ended
    stderr,        \* messages printed with eprintln! (and by a panic)
    history        \* one record per convert_document call, in call order

vars == <<pc, cli, input_kind, disk, unreadable, unwritable, entries, idx,
          article_data, index_config, exit_status, stderr, history>>

----------------------------------------------------------------------------
(* Bounds of the model *)

MaxDocs == 2

MaxSortDocs == 3

MaxIndexDocs == 2

MaxDocLen == 5

----------------------------------------------------------------------------
(* Option<T> *)

None == [some |-> FALSE]

Some(x) == [some |-> TRUE, v |-> x]

(* Tokens of text *)

Marker == [t |-> "<!-- metadata"]

EndMarker == [t |-> "-->"]

NL == [t |-> "\n"]

Text(s) == [t |-> "text", s |-> s]

KV(key, val) == [t |-> "kv", key |-> key, val |-> val]

(* toml::Value *)

VString(s) == [kind |-> "String", s |-> s]

VInteger(n) == [kind |-> "Integer", n |-> n]

VDatetime(date) == [kind |-> "Datetime", date |-> date]

VArray(elems) == [kind |-> "Array", elems |-> elems]

VTable(fields) == [kind |-> "Table", fields |-> fields]

Date(y, m, d) == [year |-> y, month |-> m, day |-> d]

(* Paths *)

Path(stem, ext) == [stem |-> stem, ext |-> ext]

EmptyPath == Path("", "")

set_extension(p, ext) == [p EXCEPT !.ext = ext]

file_name(p) == p

----------------------------------------------------------------------------
(* Sequence helpers *)

RECURSIVE Flatten(_)
Flatten(ss) ==
    IF ss = <<>> THEN <<>> ELSE Head(ss) \o Flatten(Tail(ss))

RECURSIVE SeqsUpTo(_, _)
SeqsUpTo(S, n) ==
    IF n = 0 THEN {<<>>}
    ELSE LET shorter == SeqsUpTo(S, n - 1)
         IN shorter \cup {Append(s, x) : s \in {q \in shorter : Len(q) = n - 1}, x \in S}

Range(s) == {s[i] : i \in DOMAIN s}

(* str::split("\n"): the pieces between newlines; n newlines give n+1 pieces *)
RECURSIVE split(_)
split(text) ==
    IF \A i \in DOMAIN text : text[i] # NL THEN <<text>>
    ELSE LET k == CHOOSE i \in DOMAIN text :
                      text[i] = NL /\ \A j \in 1..(i - 1) : text[j] # NL
         IN <<SubSeq(text, 1, k - 1)>> \o split(SubSeq(text, k + 1, Len(text)))

(* str::starts_with: a prefix test on the characters, not on the first line *)
starts_with(text, prefix) ==
    /\ Len(text) >= Len(prefix)
    /\ SubSeq(text, 1, Len(prefix)) = prefix

----------------------------------------------------------------------------
(* Metadata *)

Metadata_new ==
    [title |-> None, tags |-> <<>>, publish_date |-> None, file_name |-> EmptyPath]

(* str::parse::<toml::Table>: every line is blank or one key/value pair, and
   no key is given twice; anything else is a syntax error *)
ParseToml(text) ==
    LET lines == split(text)
        kvs == {i \in DOMAIN lines : lines[i] # <<>>}
        wellformed ==
            /\ \A i \in kvs : Len(lines[i]) = 1 /\ lines[i][1].t = "kv"
            /\ \A i, j \in kvs : lines[i][1].key = lines[j][1].key => i = j
    IN IF wellformed
       THEN [ok |-> TRUE,
             keys |-> {lines[i][1].key : i \in kvs},
             table |-> [k \in {lines[i][1].key : i \in kvs} |->
                          LET i == CHOOSE n \in kvs : lines[n][1].key = k
                          IN lines[i][1].val]]
       ELSE [ok |-> FALSE, keys |-> {}, table |-> <<>>]

TomlGet(parsed, key) ==
    IF key \in parsed.keys THEN Some(parsed.table[key]) ELSE None

IsKind(opt, kind) == opt.some /\ opt.v.kind = kind

RECURSIVE StrElems(_)
StrElems(elems) ==
    IF elems = <<>> THEN <<>>
    ELSE IF Head(elems).kind = "String"
         THEN <<Head(elems).s>> \o StrElems(Tail(elems))
         ELSE StrElems(Tail(elems))

from_toml_title(parsed) ==
    IF IsKind(TomlGet(parsed, "title"), "String")
    THEN Some(TomlGet(parsed, "title").v.s) ELSE None

from_toml_published(parsed) ==
    IF IsKind(TomlGet(parsed, "published"), "Datetime")
    THEN TomlGet(parsed, "published").v.date ELSE None

from_toml_tags(parsed) ==
    IF IsKind(TomlGet(parsed, "tags"), "Array")
    THEN StrElems(TomlGet(parsed, "tags").v.elems) ELSE <<>>

(* Metadata::from_toml: the record, and what it printed *)
from_toml(toml) ==
    IF Len(toml) = 0 THEN [metadata |-> Metadata_new, stderr |-> <<>>]
    ELSE LET parsed == ParseToml(toml)
         IN IF ~parsed.ok
            THEN [metadata |-> Metadata_new,
                  stderr |-> <<[msg |-> "Failed to read TOML", path |-> EmptyPath]>>]
            ELSE [metadata |->
                     [title |-> from_toml_title(parsed),
                      tags |-> from_toml_tags(parsed),
                      publish_date |-> from_toml_published(parsed),
                      file_name |-> EmptyPath],
                  stderr |-> <<>>]

(* convert_document, the loop that collects the metadata block *)
RECURSIVE CollectBlock(_)
CollectBlock(lines) ==
    IF lines = <<>> THEN <<>>
    ELSE IF Head(lines) = <<EndMarker>> THEN <<>>
         ELSE Head(lines) \o <<NL>> \o CollectBlock(Tail(lines))

MetadataBlock(document) ==
    IF starts_with(document, <<Marker>>)
    THEN CollectBlock(Tail(split(document)))
    ELSE <<>>

----------------------------------------------------------------------------
(* Files *)

NoFile == [present |-> FALSE, data |-> <<>>]

File(data) == [present |-> TRUE, data |-> data]

(* fs::read_to_string *)
read_to_string(dsk, unr, path) ==
    IF dsk[path].present /\ path \notin unr
    THEN [ok |-> TRUE, data |-> dsk[path].data]
    ELSE [ok |-> FALSE, data |-> <<>>]

(* fs::write: creates or truncates the file, then writes all of it *)
fs_write(dsk, unw, path, data) ==
    IF path \in unw
    THEN [ok |-> FALSE, disk |-> dsk]
    ELSE [ok |-> TRUE, disk |-> [dsk EXCEPT ![path] = File(data)]]

optional_file_concat(out, path, dsk, unr) ==
    IF path.some
    THEN LET r == read_to_string(dsk, unr, path.v)
         IN IF r.ok THEN [ok |-> TRUE, out |-> out \o r.data]
            ELSE [ok |-> FALSE, out |-> out]
    ELSE [ok |-> TRUE, out |-> out]

(* Messages on the error stream *)

Msg(what, path) == [msg |-> what, path |-> path]

PanicMsg == Msg("called Result::unwrap() on an Err value", EmptyPath)

(* Exit statuses: exit(1), and the status of a process ended by a panic *)

ExitFailure == 1

PanicExitStatus == 101

ExitSuccess == 0

----------------------------------------------------------------------------
(* convert_document *)

(* format!("<h1><center> {title} </center></h1>\n") *)
TitleHeading(title) ==
    <<Text("<h1><center> "), Text(title), Text(" </center></h1>"), NL>>

(* markdown::to_html_with_options with GFM and raw HTML allowed: the markdown
   engine is a library; its output is one token that names the text it
   rendered, and a text of blank lines renders to nothing *)
to_html_with_options(document) ==
    IF \A i \in DOMAIN document : document[i] = NL THEN <<>>
    ELSE <<[t |-> "html", of |-> document]>>

(* Result::unwrap on the result of optional_file_concat *)
unwrap(st, res) ==
    IF res.ok THEN [st EXCEPT !.html = res.out]
    ELSE [st EXCEPT !.status = "panic", !.stderr = Append(@, PanicMsg),
                    !.cause = "concat"]

ConvPrologue(st, c, unr) ==
    IF st.status # "run" THEN st
    ELSE LET r == unwrap(st, optional_file_concat(st.html, c.prologue, st.disk, unr))
         IN IF r.status = "panic" THEN [r EXCEPT !.cause = "prologue"] ELSE r

ConvTitle(st) ==
    IF st.status # "run" THEN st
    ELSE IF st.metadata.title.some
         THEN [st EXCEPT !.html = @ \o TitleHeading(st.metadata.title.v)]
         ELSE st

ConvBody(st) ==
    IF st.status # "run" THEN st
    ELSE [st EXCEPT !.html = @ \o to_html_with_options(st.document)]

ConvEpilogue(st, c, unr) ==
    IF st.status # "run" THEN st
    ELSE LET r == unwrap(st, optional_file_concat(st.html, c.epilogue, st.disk, unr))
         IN IF r.status = "panic" THEN [r EXCEPT !.cause = "epilogue"] ELSE r

ConvWrite(st, outfile, unw) ==
    IF st.status # "run" THEN st
    ELSE LET w == fs_write(st.disk, unw, outfile, st.html)
         IN IF w.ok THEN [st EXCEPT !.disk = w.disk, !.status = "ok"]
            ELSE [st EXCEPT !.status = "exit", !.cause = "write",
                            !.stderr = Append(@, Msg("Failed to write to", outfile))]

(* A from_toml that keeps the title of a block it could not parse *)
from_toml_KeepsTitle(toml) ==
    LET r == from_toml(toml)
        titles == {i \in DOMAIN toml : toml[i].t = "kv" /\ toml[i].key = "title"
                                       /\ toml[i].val.kind = "String"}
    IN IF Len(toml) # 0 /\ ~ParseToml(toml).ok /\ titles # {}
       THEN [r EXCEPT !.metadata.title = Some(toml[CHOOSE i \in titles : TRUE].val.s)]
       ELSE r

(* Metadata::from_toml as convert_document calls it *)
ParseFrontMatter(block) == from_toml(block)

(* The start of convert_document: the source is read and its front matter
   parsed.  The state of the call: how it ended (status run, ok, exit for
   exit(1), or panic), which step ended it (cause), the Metadata, the text
   built so far, the disk and the messages printed. *)
ConvBegin(dsk, unr, infile, outfile) ==
    LET rd == read_to_string(dsk, unr, infile)
    IN IF ~rd.ok
       THEN [status |-> "exit", cause |-> "source", html |-> <<>>, disk |-> dsk,
             stderr |-> <<Msg("Failed to read", infile)>>,
             metadata |-> Metadata_new, block |-> <<>>, document |-> <<>>]
       ELSE LET document == rd.data
                block == MetadataBlock(document)
                fm == ParseFrontMatter(block)
            IN [status |-> "run", cause |-> "none", html |-> <<>>,
                disk |-> dsk, stderr |-> fm.stderr,
                metadata |-> [fm.metadata EXCEPT !.file_name = file_name(outfile)],
                block |-> block, document |-> document]

(* A convert_document that emits the title heading before the prologue *)
convert_document_TitleFirst(c, dsk, unr, unw, infile, outfile) ==
    ConvWrite(
      ConvEpilogue(
        ConvBody(
          ConvPrologue(
            ConvTitle(ConvBegin(dsk, unr, infile, outfile)),
            c, unr)),
        c, unr),
      outfile, unw)

(* A convert_document that writes the destination before it reads the epilogue *)
convert_document_WriteEarly(c, dsk, unr, unw, infile, outfile) ==
    LET w == ConvWrite(
               ConvBody(ConvTitle(ConvPrologue(ConvBegin(dsk, unr, infile, outfile),
                                               c, unr))),
               outfile, unw)
        e == ConvEpilogue([w EXCEPT !.status = "run"], c, unr)
    IN IF w.status # "ok" THEN w
       ELSE IF e.status # "run" THEN e
       ELSE ConvWrite(e, outfile, unw)

(* convert_document: source, front matter, prologue, title, body, epilogue,
   write, in this order *)
convert_document(c, dsk, unr, unw, infile, outfile) ==
    ConvWrite(
      ConvEpilogue(
        ConvBody(
          ConvTitle(
            ConvPrologue(ConvBegin(dsk, unr, infile, outfile), c, unr))),
        c, unr),
      outfile, unw)

(* The status the process ends with when the call does not return *)
StatusOf(res) == IF res.status = "panic" THEN PanicExitStatus ELSE ExitFailure

HistoryEntry(infile, outfile, dsk, res) ==
    [infile |-> infile, outfile |-> outfile, before |-> dsk[outfile],
     status |-> res.status, cause |-> res.cause, metadata |-> res.metadata,
     block |-> res.block, document |-> res.document, html |-> res.html,
     after |-> res.disk[outfile]]

----------------------------------------------------------------------------
(* The sort of article_data *)

cmp(x, y) == IF x < y THEN "Less" ELSE IF x > y THEN "Greater" ELSE "Equal"

(* A closure that compares its arguments the other way round *)
sort_closure_Ascending(b, a) ==
    CASE a.publish_date.some /\ ~b.publish_date.some -> "Greater"
      [] ~a.publish_date.some /\ b.publish_date.some -> "Less"
      [] ~a.publish_date.some /\ ~b.publish_date.some -> "Equal"
      [] OTHER ->
           LET a_date == a.publish_date.v
               b_date == b.publish_date.v
               year_cmp == cmp(b_date.year, a_date.year)
               month_cmp == cmp(b_date.month, a_date.month)
           IN IF year_cmp # "Equal" THEN year_cmp
              ELSE IF month_cmp # "Equal" THEN month_cmp
              ELSE cmp(b_date.day, a_date.day)

(* The closure of article_data.sort_by(|b, a| ...): b is the first element
   handed to the comparator, a the second *)
sort_closure(b, a) ==
    CASE a.publish_date.some /\ ~b.publish_date.some -> "Greater"
      [] ~a.publish_date.some /\ b.publish_date.some -> "Less"
      [] ~a.publish_date.some /\ ~b.publish_date.some -> "Equal"
      [] OTHER ->
           LET a_date == a.publish_date.v
               b_date == b.publish_date.v
               year_cmp == cmp(a_date.year, b_date.year)
               month_cmp == cmp(a_date.month, b_date.month)
           IN IF year_cmp # "Equal" THEN year_cmp
              ELSE IF month_cmp # "Equal" THEN month_cmp
              ELSE cmp(a_date.day, b_date.day)

(* slice::sort_by is a stable sort: an element goes behind every element that
   is not Greater than it *)
RECURSIVE sort_insert(_, _)
sort_insert(sorted, e) ==
    IF sorted = <<>> THEN <<e>>
    ELSE IF sort_closure(Head(sorted), e) = "Greater" THEN <<e>> \o sorted
         ELSE <<Head(sorted)>> \o sort_insert(Tail(sorted), e)

RECURSIVE sort_by(_)
sort_by(list) ==
    IF list = <<>> THEN <<>>
    ELSE sort_insert(sort_by(SubSeq(list, 1, Len(list) - 1)), list[Len(list)])

----------------------------------------------------------------------------
(* IndexConfig *)

Tag(name, description) == [name |-> name, description |-> description]

IndexConfig_new == [title |-> "", tags |-> <<>>]

(* table.get(key).map_or(None, |s| s.as_str()) *)
GetStr(keys, table, key) ==
    IF key \in keys /\ table[key].kind = "String" THEN Some(table[key].s) ELSE None

unwrap_or(opt, default) == IF opt.some THEN opt.v ELSE default

RECURSIVE ConfigTags(_)
ConfigTags(elems) ==
    IF elems = <<>> THEN <<>>
    ELSE LET tag == Head(elems)
         IN IF tag.kind = "Table"
            THEN <<Tag(unwrap_or(GetStr(DOMAIN tag.fields, tag.fields, "name"), ""),
                       unwrap_or(GetStr(DOMAIN tag.fields, tag.fields, "description"), ""))>>
                 \o ConfigTags(Tail(elems))
            ELSE ConfigTags(Tail(elems))

(* IndexConfig::open: the configuration, and what it printed *)
IndexConfig_open(dsk, unr, path) ==
    LET rd == read_to_string(dsk, unr, path)
    IN IF ~rd.ok
       THEN [config |-> IndexConfig_new, stderr |-> <<Msg("Failed to open", path)>>]
       ELSE LET parsed == ParseToml(rd.data)
            IN IF ~parsed.ok
               THEN [config |-> IndexConfig_new,
                     stderr |-> <<Msg("Failed to parse", path)>>]
               ELSE [config |->
                        [title |-> unwrap_or(GetStr(parsed.keys, parsed.table, "title"), ""),
                         tags |-> IF "tag" \in parsed.keys /\ parsed.table["tag"].kind = "Array"
                                  THEN ConfigTags(parsed.table["tag"].elems)
                                  ELSE <<>>],
                     stderr |-> <<>>]

----------------------------------------------------------------------------
(* The index page *)

MonthNames ==
    <<"January", "February", "March", "April", "May", "June", "July",
      "August", "September", "October", "November", "December">>

date_to_english(date) ==
    [month |-> IF date.month \in DOMAIN MonthNames THEN MonthNames[date.month] ELSE "",
     day |-> date.day,
     suffix |-> CASE date.day % 10 = 1 -> "st"
                  [] date.day % 10 = 2 -> "nd"
                  [] date.day % 10 = 3 -> "rd"
                  [] OTHER -> "th",
     year |-> date.year]

(* format!("# <center> {} </center>\n", index_config.title) *)
IndexTitle(title) == <<[t |-> "# <center>", title |-> title], NL>>

(* format!("## {}\n{}\n", tag.name, tag.description) *)
SectionHead(tag) == <<[t |-> "##", name |-> tag.name], NL, Text(tag.description), NL>>

(* format!("- [{title}]({})", article.file_name.display()) *)
Listing(title, file) == <<[t |-> "- []()", title |-> title, href |-> file]>>

(* format!("<br>{}", date_to_english(&date)) *)
DateBr(date) == <<[t |-> "<br>", english |-> date_to_english(date)]>>

(* Vec::contains *)
contains(list, x) == \E i \in DOMAIN list : list[i] = x

(* An inner loop without the filter on the tag *)
ArticleLine_AnyTag(article, tag) ==
    IF ~article.title.some THEN <<>>
    ELSE Listing(article.title.v, article.file_name)
         \o (IF article.publish_date.some THEN DateBr(article.publish_date.v) ELSE <<>>)
         \o <<NL>>

(* An inner loop that lists an article without a title under an empty title *)
ArticleLine_UntitledListed(article, tag) ==
    IF ~contains(article.tags, tag.name) THEN <<>>
    ELSE Listing(unwrap_or(article.title, ""), article.file_name)
         \o (IF article.publish_date.some THEN DateBr(article.publish_date.v) ELSE <<>>)
         \o <<NL>>

(* One pass of the inner loop over article_data.iter().filter(..) *)
ArticleLine(article, tag) ==
    IF ~contains(article.tags, tag.name) THEN <<>>
    ELSE IF ~article.title.some THEN <<>>
    ELSE Listing(article.title.v, article.file_name)
         \o (IF article.publish_date.some THEN DateBr(article.publish_date.v) ELSE <<>>)
         \o <<NL>>

RECURSIVE SectionBody(_, _)
SectionBody(articles, tag) ==
    IF articles = <<>> THEN <<>>
    ELSE ArticleLine(Head(articles), tag) \o SectionBody(Tail(articles), tag)

RECURSIVE Sections(_, _)
Sections(tags, articles) ==
    IF tags = <<>> THEN <<>>
    ELSE SectionHead(Head(tags)) \o SectionBody(articles, Head(tags))
         \o Sections(Tail(tags), articles)

index_md(config, articles) == IndexTitle(config.title) \o Sections(config.tags, articles)

----------------------------------------------------------------------------
(* main *)

InputDir == Path("blog", "")

IndexMdPath == Path("index", "md")

IndexHtmlPath == Path("index", "html")

(* The end of the process with the given status *)
Terminate(status, msgs) ==
    /\ pc' = "exited"
    /\ exit_status' = Some(status)
    /\ stderr' = stderr \o msgs

(* One call of convert_document from main: the files it wrote, the messages
   it printed, and the end of the process when it did not return *)
Call(infile, outfile, res) ==
    /\ disk' = res.disk
    /\ history' = Append(history, HistoryEntry(infile, outfile, disk, res))

(* fs::metadata(&cli.input).unwrap().is_dir() *)
Start ==
    /\ pc = "start"
    /\ IF input_kind = "missing"
       THEN Terminate(PanicExitStatus, <<PanicMsg>>)
       ELSE /\ pc' = (IF input_kind = "dir" THEN "read_dir" ELSE "single")
            /\ UNCHANGED <<exit_status, stderr>>
    /\ UNCHANGED <<cli, input_kind, disk, unreadable, unwritable, entries, idx,
                   article_data, index_config, history>>

(* A loop that goes on with the next entry when a conversion failed *)
ConvertEntry_SkipFailed ==
    /\ pc = "read_dir"
    /\ idx <= Len(entries)
    /\ LET input == entries[idx]
           output == set_extension(input, "html")
           res == convert_document(cli, disk, unreadable, unwritable, input, output)
       IN IF input.ext # "md"
          THEN UNCHANGED <<disk, article_data, stderr, history>>
          ELSE /\ Call(input, output, res)
               /\ stderr' = stderr \o res.stderr
               /\ article_data' = IF res.status = "ok"
                                  THEN Append(article_data, res.metadata)
                                  ELSE article_data
    /\ idx' = idx + 1
    /\ UNCHANGED <<pc, exit_status, cli, input_kind, unreadable, unwritable,
                   entries, index_config>>

(* One iteration of for entry in fs::read_dir(&cli.input) *)
ConvertEntry ==
    /\ pc = "read_dir"
    /\ idx <= Len(entries)
    /\ LET input == entries[idx]
           output == set_extension(input, "html")
           res == convert_document(cli, disk, unreadable, unwritable, input, output)
       IN IF input.ext # "md"
          THEN /\ idx' = idx + 1
               /\ UNCHANGED <<pc, disk, article_data, exit_status, stderr, history>>
          ELSE /\ Call(input, output, res)
               /\ IF res.status = "ok"
                  THEN /\ article_data' = Append(article_data, res.metadata)
                       /\ idx' = idx + 1
                       /\ stderr' = stderr \o res.stderr
                       /\ UNCHANGED <<pc, exit_status>>
                  ELSE /\ Terminate(StatusOf(res), res.stderr)
                       /\ UNCHANGED <<article_data, idx>>
    /\ UNCHANGED <<cli, input_kind, unreadable, unwritable, entries, index_config>>

(* article_data.sort_by(..), once the loop is over *)
Sort ==
    /\ pc = "read_dir"
    /\ idx > Len(entries)
    /\ article_data' = sort_by(article_data)
    /\ pc' = "index"
    /\ UNCHANGED <<cli, input_kind, disk, unreadable, unwritable, entries, idx,
                   index_config, exit_status, stderr, history>>

(* An index stage that ends the process when the configuration did not load *)
OpenIndexConfig_Fatal ==
    /\ pc = "index"
    /\ IF cli.index.some
       THEN LET r == IndexConfig_open(disk, unreadable, cli.index.v)
            IN IF r.stderr # <<>>
               THEN Terminate(ExitFailure, r.stderr) /\ UNCHANGED index_config
               ELSE /\ index_config' = r.config
                    /\ pc' = "write_index"
                    /\ UNCHANGED <<exit_status, stderr>>
       ELSE /\ Terminate(ExitSuccess, <<>>)
            /\ UNCHANGED index_config
    /\ UNCHANGED <<cli, input_kind, disk, unreadable, unwritable, entries, idx,
                   article_data, history>>

(* if let Some(index_config_path) = &cli.index: IndexConfig::open *)
OpenIndexConfig ==
    /\ pc = "index"
    /\ IF cli.index.some
       THEN LET r == IndexConfig_open(disk, unreadable, cli.index.v)
            IN /\ index_config' = r.config
               /\ stderr' = stderr \o r.stderr
               /\ pc' = "write_index"
               /\ UNCHANGED exit_status
       ELSE /\ Terminate(ExitSuccess, <<>>)
            /\ UNCHANGED index_config
    /\ UNCHANGED <<cli, input_kind, disk, unreadable, unwritable, entries, idx,
                   article_data, history>>

(* The index markdown is built and written to index.md *)
WriteIndexMd ==
    /\ pc = "write_index"
    /\ LET w == fs_write(disk, unwritable, IndexMdPath,
                         index_md(index_config, article_data))
       IN IF w.ok
          THEN /\ disk' = w.disk
               /\ pc' = "convert_index"
               /\ UNCHANGED <<exit_status, stderr>>
          ELSE /\ Terminate(ExitFailure, <<Msg("Failed to write to", IndexMdPath)>>)
               /\ UNCHANGED disk
    /\ UNCHANGED <<cli, input_kind, unreadable, unwritable, entries, idx,
                   article_data, index_config, history>>

(* convert_document(&cli, &index_md_path, &index_html_path), then main returns *)
ConvertIndex ==
    /\ pc = "convert_index"
    /\ LET res == convert_document(cli, disk, unreadable, unwritable,
                                   IndexMdPath, IndexHtmlPath)
       IN /\ Call(IndexMdPath, IndexHtmlPath, res)
          /\ Terminate(IF res.status = "ok" THEN ExitSuccess ELSE StatusOf(res),
                       res.stderr)
    /\ UNCHANGED <<cli, input_kind, unreadable, unwritable, entries, idx,
                   article_data, index_config>>

(* Single-file mode: the output path, convert_document, then main returns *)
ConvertSingle ==
    /\ pc = "single"
    /\ LET output == IF cli.output.some THEN cli.output.v
                     ELSE set_extension(cli.input, "html")
           res == convert_document(cli, disk, unreadable, unwritable,
                                   cli.input, output)
       IN /\ Call(cli.input, output, res)
          /\ Terminate(IF res.status = "ok" THEN ExitSuccess ELSE StatusOf(res),
                       res.stderr)
    /\ UNCHANGED <<cli, input_kind, unreadable, unwritable, entries, idx,
                   article_data, index_config>>

Next ==
    \/ Start
    \/ ConvertEntry
    \/ Sort
    \/ OpenIndexConfig
    \/ WriteIndexMd
    \/ ConvertIndex
    \/ ConvertSingle

----------------------------------------------------------------------------
(* The files and command lines the runs start from *)

DocStems == <<"a", "b", "c", "d", "e">>

DocPath(i) == Path(DocStems[i], "md")

NotesPath == Path("notes", "txt")

ProloguePath == Path("prologue", "html")

EpiloguePath == Path("epilogue", "html")

IndexConfigPath == Path("index", "toml")

OutPath == Path("out", "html")

AllPaths ==
    {Path(DocStems[i], e) : i \in DOMAIN DocStems, e \in {"md", "html"}}
    \cup {NotesPath, ProloguePath, EpiloguePath, IndexConfigPath, OutPath,
          IndexMdPath, IndexHtmlPath}

(* A document with front matter: the marker line, one line per given field,
   the closing line, a body *)
MkDoc(title, tags, published) ==
    <<Marker, NL>>
    \o (IF title.some THEN <<KV("title", VString(title.v)), NL>> ELSE <<>>)
    \o (IF published.some THEN <<KV("published", VDatetime(published)), NL>> ELSE <<>>)
    \o (IF tags # <<>>
        THEN <<KV("tags", VArray([i \in DOMAIN tags |-> VString(tags[i])])), NL>>
        ELSE <<>>)
    \o <<EndMarker, NL, Text("body"), NL>>

PlainDoc == <<Text("X"), NL>>

TitledDoc == MkDoc(Some("T"), <<"tech">>, Some(Date(2024, 5, 1)))

(* A block with a good title line and a line that is no TOML *)
MalformedDoc ==
    <<Marker, NL, KV("title", VString("T")), NL, Text("tags = ["), NL,
      EndMarker, NL, Text("body"), NL>>

DocChoices == {PlainDoc, TitledDoc, MalformedDoc}

TechTag == VTable([k \in {"name", "description"} |->
                     IF k = "name" THEN VString("tech") ELSE VString("desc")])

LifeTag == VTable([k \in {"name"} |-> VString("life")])

ConfigFile(tags) ==
    <<KV("title", VString("Site")), NL>>
    \o (IF tags # <<>> THEN <<KV("tag", VArray(tags)), NL>> ELSE <<>>)

MalformedConfig == <<Text("[[tag"), NL>>

(* The directory in enumeration order: the first n documents, a file that is
   no markdown document after the first when notes is set, and the index.md
   that an earlier run left when stale is set *)
Entries(n, notes, stale) ==
    LET docs == [i \in 1..n |-> DocPath(i)]
    IN (IF ~notes THEN docs
        ELSE IF n = 0 THEN <<NotesPath>>
        ELSE <<docs[1], NotesPath>> \o Tail(docs))
       \o (IF stale THEN <<IndexMdPath>> ELSE <<>>)

Cli(input, prologue, epilogue, output, index) ==
    [input |-> input, prologue |-> prologue, epilogue |-> epilogue,
     output |-> output, index |-> index]

OptPath(state, path) == IF state = "none" THEN None ELSE Some(path)

(* The disk: the documents, the fragments A and B, the index configuration,
   and, when stale is set, the outputs of an earlier run *)
Disk(contents, config, stale) ==
    [p \in AllPaths |->
        CASE \E i \in DOMAIN contents : p = DocPath(i) ->
               File(contents[CHOOSE i \in DOMAIN contents : p = DocPath(i)])
          [] p = NotesPath -> File(<<Text("notes")>>)
          [] p = ProloguePath -> File(<<Text("A")>>)
          [] p = EpiloguePath -> File(<<Text("B")>>)
          [] p = IndexConfigPath /\ config.some -> File(config.v)
          [] stale /\ p = IndexMdPath -> File(IndexTitle("Old"))
          [] stale /\ p \in {IndexHtmlPath, OutPath} -> File(<<Text("old")>>)
          [] stale /\ \E i \in DOMAIN contents : p = set_extension(DocPath(i), "html") ->
               File(<<Text("old")>>)
          [] OTHER -> NoFile]

InitWith(kind, c, ents, dsk, unr, unw) ==
    /\ pc = "start"
    /\ cli = c
    /\ input_kind = kind
    /\ disk = dsk
    /\ unreadable = unr
    /\ unwritable = unw
    /\ entries = ents
    /\ idx = 1
    /\ article_data = <<>>
    /\ index_config = IndexConfig_new
    /\ exit_status = None
    /\ stderr = <<>>
    /\ history = <<>>

FragmentStates == {"none", "ok", "unreadable"}

IndexStates == {"none", "ok", "malformed", "missing"}

(* At most one of the documents cannot be read or one of the outputs written *)
Faults(n) ==
    {[read |-> {}, write |-> {}]}
    \cup {[read |-> {DocPath(i)}, write |-> {}] : i \in 1..n}
    \cup {[read |-> {}, write |-> {p}] :
            p \in {set_extension(DocPath(i), "html") : i \in 1..n}
                  \cup {IndexMdPath, IndexHtmlPath, OutPath}}

RunInit(kind, n, notes, stale, contents, pro, epi, config, out, fault) ==
    InitWith(kind,
             Cli(IF kind = "dir" THEN InputDir ELSE DocPath(1),
                 OptPath(pro, ProloguePath), OptPath(epi, EpiloguePath),
                 out, config.path),
             IF kind = "dir" THEN Entries(n, notes, stale) ELSE <<>>,
             Disk(contents, config.file, stale),
             fault.read
               \cup (IF pro = "unreadable" THEN {ProloguePath} ELSE {})
               \cup (IF epi = "unreadable" THEN {EpiloguePath} ELSE {}),
             fault.write)

(* The --index option and the file it names *)
IndexOption(ix, tags) ==
    [path |-> OptPath(ix, IndexConfigPath),
     file |-> CASE ix = "ok" -> Some(ConfigFile(tags))
                [] ix = "malformed" -> Some(MalformedConfig)
                [] OTHER -> None]

NoFault == [read |-> {}, write |-> {}]

(* Every run: a directory of up to MaxDocs documents, or one file *)
Init ==
    \/ \E n \in 0..MaxDocs, notes \in BOOLEAN, stale \in BOOLEAN,
          pro \in FragmentStates, epi \in FragmentStates, ix \in IndexStates :
         \E contents \in [1..n -> DocChoices], fault \in Faults(n) :
            RunInit("dir", n, notes, stale, contents, pro, epi,
                    IndexOption(ix, <<TechTag, LifeTag>>), None, fault)
    \/ \E kind \in {"file", "missing"}, n \in 0..1, stale \in BOOLEAN,
          pro \in FragmentStates, epi \in FragmentStates,
          out \in {None, Some(OutPath)} :
         \E contents \in [1..n -> DocChoices], fault \in Faults(n) :
            RunInit(kind, n, FALSE, stale, contents, pro, epi,
                    IndexOption("none", <<>>), out, fault)

Spec == Init /\ [][Next]_vars

----------------------------------------------------------------------------
(* Single-file runs over every document text of up to MaxDocLen tokens *)

FrontMatterTokens ==
    {Marker, EndMarker, NL, Text("x"), KV("title", VString("T")),
     KV("tags", VArray(<<VString("tech"), VInteger(1)>>))}

InitFrontMatter ==
    \E document \in SeqsUpTo(FrontMatterTokens, MaxDocLen) :
       RunInit("file", 1, FALSE, FALSE, [i \in 1..1 |-> document], "none", "none",
               IndexOption("none", <<>>), None, NoFault)

NextFrontMatter == Start \/ ConvertSingle

SpecFrontMatter == InitFrontMatter /\ [][NextFrontMatter]_vars

----------------------------------------------------------------------------
(* Directory runs over documents of every date, without an index *)

Years == {2023, 2024}

Months == {1, 12}

Days == {2, 11}

DateChoices == {None} \cup {Some(Date(y, m, d)) : y \in Years, m \in Months, d \in Days}

InitSort ==
    \E n \in 0..MaxSortDocs :
       \E dates \in [1..n -> DateChoices] :
          RunInit("dir", n, FALSE, FALSE,
                  [i \in 1..n |-> MkDoc(None, <<>>, dates[i])], "none", "none",
                  IndexOption("none", <<>>), None, NoFault)

NextSort == Start \/ ConvertEntry \/ Sort \/ OpenIndexConfig

SpecSort == InitSort /\ [][NextSort]_vars

----------------------------------------------------------------------------
(* Directory runs with an index over documents of every title and tag list *)

IndexDocChoices ==
    {MkDoc(title, tags, None) :
        title \in {None, Some(""), Some("T")},
        tags \in {<<>>, <<"tech">>, <<"life", "tech">>, <<"misc">>}}
    \cup {MkDoc(Some("U"), <<"tech">>, Some(Date(2024, 5, 1))), PlainDoc}

IndexTagChoices == {<<>>, <<TechTag, LifeTag>>, <<LifeTag, TechTag, LifeTag>>}

InitIndex ==
    \E n \in 0..MaxIndexDocs, tags \in IndexTagChoices :
       \E contents \in [1..n -> IndexDocChoices] :
          RunInit("dir", n, FALSE, FALSE, contents, "none", "none",
                  IndexOption("ok", tags), None, NoFault)

NextIndex ==
    Start \/ ConvertEntry \/ Sort \/ OpenIndexConfig \/ WriteIndexMd \/ ConvertIndex

SpecIndex == InitIndex /\ [][NextIndex]_vars

----------------------------------------------------------------------------
(* Properties *)

Last(seq) == seq[Len(seq)]

Calls == {history[i] : i \in DOMAIN history}

IsDefaultRecord(metadata) ==
    /\ metadata.title = None
    /\ metadata.tags = <<>>
    /\ metadata.publish_date = None

(* The lines of the document after the first, each followed by a newline, up
   to but not including the first line that is exactly the closing line *)
LinesUpToClose(document) ==
    LET lines == split(document)
        closes == {i \in 2..Len(lines) : lines[i] = <<EndMarker>>}
        stop == IF closes = {} THEN Len(lines) + 1
                ELSE CHOOSE i \in closes : \A j \in closes : i <= j
    IN Flatten([i \in 1..(stop - 2) |-> lines[i + 1] \o <<NL>>])

FirstLineIsMarker(document) == Head(split(document)) = <<Marker>>

(* C8: if the first line of the document is exactly the marker line, the
   metadata block is the lines after it, each followed by a newline, up to the
   first closing line; if the document does not begin with that exact marker
   line, the block is empty and the record is the default one. *)
C8_ExactMarkerLine ==
    \A h \in Calls :
       h.status = "ok" =>
          IF FirstLineIsMarker(h.document)
          THEN h.block = LinesUpToClose(h.document)
          ELSE h.block = <<>> /\ IsDefaultRecord(h.metadata)


----------------------------------------------------------------------------
(* Document conversion *)

FragmentOf(path) == IF path.some THEN disk[path.v].data ELSE <<>>

FragmentReadable(path) ==
    path.some => disk[path.v].present /\ path.v \notin unreadable

HeadingOf(metadata) ==
    IF metadata.title.some
    THEN <<Text("<h1><center> "), Text(metadata.title.v), Text(" </center></h1>"), NL>>
    ELSE <<>>

(* C3: the content written by a successful conversion is the prologue (if
   configured), the title heading (if the document has a title), the rendered
   body and the epilogue (if configured), concatenated in this order; with
   prologue A, epilogue B and no title it is A, the body, B. *)
C3_OutputIsConcatenation ==
    \A h \in Calls :
       h.status = "ok" =>
          /\ h.after.present
          /\ h.after.data = FragmentOf(cli.prologue) \o HeadingOf(h.metadata)
                            \o to_html_with_options(h.document)
                            \o FragmentOf(cli.epilogue)
          /\ (cli.prologue.some /\ cli.epilogue.some /\ ~h.metadata.title.some) =>
                h.after.data = <<Text("A")>> \o to_html_with_options(h.document)
                               \o <<Text("B")>>

C3_Witness ==
    \E h \in Calls :
       /\ h.status = "ok"
       /\ cli.prologue.some /\ cli.epilogue.some
       /\ h.document = PlainDoc
       /\ disk[h.outfile].data = <<Text("A"), [t |-> "html", of |-> PlainDoc], Text("B")>>

(* C4: each of the four fatal failures of a conversion (source unreadable,
   prologue unreadable, epilogue unreadable, destination unwritable) ends the
   process with exit status 1 and a message on the error stream, the same
   outcome for all four; a run without a fatal failure ends with status 0. *)
C4_FatalFailuresExitOne ==
    pc = "exited" /\ history # <<>> =>
       /\ Last(history).cause \in {"source", "prologue", "epilogue", "write"} =>
             exit_status = Some(ExitFailure) /\ stderr # <<>>
       /\ (Last(history).cause = "none"
           /\ Msg("Failed to write to", IndexMdPath) \notin Range(stderr)) =>
             exit_status = Some(ExitSuccess)

MalformedBlock(h) == h.block # <<>> /\ ~ParseToml(h.block).ok

MarkdownEntries == {j \in DOMAIN entries : entries[j].ext = "md"}

(* C5: a metadata block that is present but is no TOML document gives the
   entirely default record; the conversion still reaches the write step and
   writes a non-empty file without a title heading, the failure is logged, and
   the run goes on to the remaining documents instead of ending. *)
C5_MalformedBlockRecovers ==
    \A i \in DOMAIN history :
       LET h == history[i]
       IN h.cause # "source" /\ MalformedBlock(h) =>
            /\ IsDefaultRecord(h.metadata)
            /\ Msg("Failed to read TOML", EmptyPath) \in Range(stderr)
            /\ (FragmentReadable(cli.prologue) /\ FragmentReadable(cli.epilogue)
                /\ h.outfile \notin unwritable) => h.status = "ok"
            /\ h.status = "ok" =>
                 /\ h.after.present
                 /\ h.after.data # <<>>
                 /\ Text("<h1><center> ") \notin Range(h.after.data)
                 /\ disk[h.outfile] = h.after
            /\ (h.status = "ok" /\ i = Len(history) /\ pc = "exited") =>
                 \/ exit_status = Some(ExitSuccess)
                      /\ (input_kind = "dir" =>
                            Len(article_data) = Cardinality(MarkdownEntries))
                 \/ Last(stderr) = Msg("Failed to write to", IndexMdPath)

C5_Witness ==
    /\ input_kind = "dir"
    /\ Len(history) >= 2
    /\ MalformedBlock(history[1])
    /\ history[1].status = "ok"
    /\ history[1].document = MalformedDoc
    /\ history[2].status = "ok"
    /\ pc = "exited" /\ exit_status = Some(ExitSuccess)

(* C10: in one conversion every read comes before the single write, so a
   conversion that fails on an unreadable source, prologue or epilogue leaves
   its destination file exactly as it was before the conversion started. *)
C10_FailedReadLeavesDestination ==
    \A i \in DOMAIN history :
       LET h == history[i]
       IN h.cause \in {"source", "prologue", "epilogue"} =>
            /\ h.status # "ok"
            /\ h.after = h.before
            /\ i = Len(history) /\ disk[h.outfile] = h.before

C10_Witness ==
    \E h \in Calls :
       /\ h.cause = "epilogue"
       /\ h.before = File(<<Text("old")>>)
       /\ disk[h.outfile] = File(<<Text("old")>>)
       /\ pc = "exited"


----------------------------------------------------------------------------
(* The sort *)

StrictlyLater(x, y) ==
    /\ x.some /\ y.some
    /\ \/ x.v.year > y.v.year
       \/ x.v.year = y.v.year /\ x.v.month > y.v.month
       \/ x.v.year = y.v.year /\ x.v.month = y.v.month /\ x.v.day > y.v.day

(* The place of a collected document in the enumeration of the directory *)
EnumPos(metadata) ==
    CHOOSE j \in DOMAIN entries : set_extension(entries[j], "html") = metadata.file_name

AfterSort == pc \in {"index", "write_index", "convert_index"} \/ exit_status = Some(ExitSuccess)

(* C1: the list that renders the index holds the collected documents ordered
   by publish_date descending (year, then month, then day): a document with a
   strictly later date precedes; every document without a date follows every
   document with one; documents that compare equal keep their enumeration
   order. *)
C1_SortedByDateDescending ==
    (input_kind = "dir" /\ AfterSort) =>
       /\ Len(article_data) = Cardinality(MarkdownEntries)
       /\ {article_data[i].file_name : i \in DOMAIN article_data}
             = {set_extension(entries[j], "html") : j \in MarkdownEntries}
       /\ \A i, j \in DOMAIN article_data :
             i < j =>
                LET x == article_data[i]
                    y == article_data[j]
                IN /\ ~StrictlyLater(y.publish_date, x.publish_date)
                   /\ ~x.publish_date.some => ~y.publish_date.some
                   /\ x.publish_date = y.publish_date => EnumPos(x) < EnumPos(y)

C1_Witness ==
    /\ input_kind = "dir" /\ AfterSort
    /\ Len(article_data) = 3
    /\ ~article_data[3].publish_date.some
    /\ EnumPos(article_data[3]) = 1
    /\ article_data[1].publish_date.some
    /\ article_data[1].publish_date = article_data[2].publish_date
    /\ EnumPos(article_data[1]) = 2

----------------------------------------------------------------------------
(* The index *)

SectionHeads(md) == {i \in DOMAIN md : md[i].t = "##"}

NthHead(md, k) ==
    CHOOSE i \in SectionHeads(md) : Cardinality({j \in SectionHeads(md) : j <= i}) = k

SectionEnd(md, k) ==
    IF k = Cardinality(SectionHeads(md)) THEN Len(md) ELSE NthHead(md, k + 1) - 1

ListingLines(md) == {i \in DOMAIN md : md[i].t = "- []()"}

(* The listing lines of the k-th section that link to the page of the article *)
LinesOf(md, k, article) ==
    {i \in ListingLines(md) :
        /\ NthHead(md, k) < i /\ i <= SectionEnd(md, k)
        /\ md[i].href = article.file_name}

IndexMd == disk[IndexMdPath].data

(* C2: the index has one section per TagDefinition of the IndexConfig, in
   declared order; a titled document has a listing line in a section if and
   only if the tag name of the section is in its tags; a tag that no
   TagDefinition declares gives no section and no line; a document without a
   title has a line in no section. *)
C2_ListedExactlyUnderItsTags ==
    pc \in {"convert_index", "exited"} /\ disk[IndexMdPath].present =>
       /\ Cardinality(SectionHeads(IndexMd)) = Len(index_config.tags)
       /\ \A k \in DOMAIN index_config.tags :
             /\ IndexMd[NthHead(IndexMd, k)].name = index_config.tags[k].name
             /\ \A i \in DOMAIN article_data :
                   LET article == article_data[i]
                   IN IF article.title.some
                         /\ index_config.tags[k].name \in Range(article.tags)
                      THEN Cardinality(LinesOf(IndexMd, k, article)) = 1
                      ELSE LinesOf(IndexMd, k, article) = {}

C2_Witness ==
    /\ pc = "exited" /\ disk[IndexMdPath].present
    /\ Len(index_config.tags) = 2
    /\ Len(article_data) = 2
    /\ article_data[1].title = Some("T")
    /\ article_data[1].tags = <<"life", "tech">>
    /\ LinesOf(IndexMd, 1, article_data[1]) # {}
    /\ LinesOf(IndexMd, 2, article_data[1]) # {}
    /\ article_data[2].tags = <<"misc">>
    /\ article_data[2].title.some

(* C9: every listing line of the index belongs to a document with a
   non-empty title: a document whose title is absent, and equally one whose
   title is the empty string, has no listing line in any section. *)
C9_EmptyTitleSkipped ==
    pc \in {"convert_index", "exited"} /\ disk[IndexMdPath].present =>
       /\ \A i \in ListingLines(IndexMd) : IndexMd[i].title # ""
       /\ \A i \in DOMAIN article_data :
             article_data[i].title \in {None, Some("")} =>
                \A n \in ListingLines(IndexMd) :
                   IndexMd[n].href # article_data[i].file_name

(* C9 as amended: every listing line belongs to a document whose title is
   present and shows that title; a document whose title is absent has no
   listing line in any section; a document whose title is present but empty
   is listed, with an empty link text, in every section whose tag it has. *)
C9_AbsentTitleSkipped ==
    pc \in {"convert_index", "exited"} /\ disk[IndexMdPath].present =>
       /\ \A n \in ListingLines(IndexMd) :
             \E i \in DOMAIN article_data :
                /\ article_data[i].file_name = IndexMd[n].href
                /\ article_data[i].title = Some(IndexMd[n].title)
       /\ \A i \in DOMAIN article_data :
             LET article == article_data[i]
             IN /\ ~article.title.some =>
                     \A n \in ListingLines(IndexMd) : IndexMd[n].href # article.file_name
                /\ article.title = Some("") =>
                     \A k \in DOMAIN index_config.tags :
                        index_config.tags[k].name \in Range(article.tags) =>
                           \E n \in LinesOf(IndexMd, k, article) : IndexMd[n].title = ""

C9_Witness ==
    /\ pc = "exited" /\ disk[IndexMdPath].present
    /\ \E n \in ListingLines(IndexMd) : IndexMd[n].title = ""
    /\ \E i \in DOMAIN article_data :
          ~article_data[i].title.some /\ article_data[i].tags = <<"tech">>

(* The --index file cannot be read, or is no TOML document *)
BadConfig ==
    /\ cli.index.some
    /\ \/ ~disk[cli.index.v].present
       \/ cli.index.v \in unreadable
       \/ ~ParseToml(disk[cli.index.v].data).ok

HeadingOnly == <<[t |-> "# <center>", title |-> ""], NL>>

(* C6: when the index configuration cannot be read or parsed, the loader
   gives the default IndexConfig and the run does not end: index.md is still
   written, as the title heading alone with no section, and is then converted
   to index.html like any other document. *)
C6_BadConfigGivesHeadingOnlyIndex ==
    (input_kind = "dir" /\ BadConfig) =>
       /\ pc \in {"write_index", "convert_index"} =>
             /\ index_config = [title |-> "", tags |-> <<>>]
             /\ exit_status = None
             /\ \E m \in Range(stderr) :
                   m.path = cli.index.v /\ m.msg \in {"Failed to open", "Failed to parse"}
       /\ pc = "convert_index" => disk[IndexMdPath] = File(HeadingOnly)
       /\ (pc = "exited" /\ Len(article_data) = Cardinality(MarkdownEntries)) =>
             \/ IndexMdPath \in unwritable
             \/ /\ disk[IndexMdPath] = File(HeadingOnly)
                /\ Len(history) = Cardinality(MarkdownEntries) + 1
                /\ Last(history).infile = IndexMdPath
                /\ Last(history).outfile = IndexHtmlPath
                /\ Last(history).document = HeadingOnly
                /\ Last(history).status = "ok" =>
                      /\ exit_status = Some(ExitSuccess)
                      /\ disk[IndexHtmlPath] = Last(history).after
                      /\ Last(history).after.present

C6_Witness ==
    /\ input_kind = "dir" /\ BadConfig
    /\ disk[IndexConfigPath] = File(MalformedConfig)
    /\ pc = "exited" /\ exit_status = Some(ExitSuccess)
    /\ Len(article_data) = 2
    /\ disk[IndexMdPath] = File(HeadingOnly)
    /\ disk[IndexHtmlPath].present
    /\ disk[IndexHtmlPath].data # <<Text("old")>>

----------------------------------------------------------------------------
(* The order of the stages *)

StageOrder ==
    {<<"start", "read_dir">>, <<"start", "single">>, <<"start", "exited">>,
     <<"read_dir", "read_dir">>, <<"read_dir", "index">>, <<"read_dir", "exited">>,
     <<"index", "write_index">>, <<"index", "exited">>,
     <<"write_index", "convert_index">>, <<"write_index", "exited">>,
     <<"convert_index", "exited">>, <<"single", "exited">>}

OnlyChanged(paths) == \A p \in AllPaths \ paths : disk'[p] = disk[p]

C7_Step ==
    /\ pc # "exited"
    /\ <<pc, pc'>> \in StageOrder
    /\ (pc = "read_dir" /\ pc' = "read_dir") => idx' = idx + 1
    /\ (pc = "read_dir" /\ pc' = "index") => idx > Len(entries) /\ disk' = disk
    /\ pc \in {"start", "index"} => disk' = disk /\ history' = history
    /\ pc = "write_index" => history' = history /\ OnlyChanged({IndexMdPath})
    /\ history' # history =>
          /\ Len(history') = Len(history) + 1
          /\ SubSeq(history', 1, Len(history)) = history
          /\ LET h == Last(history')
             IN /\ pc = "read_dir" =>
                      h.infile = entries[idx] /\ h.outfile = set_extension(entries[idx], "html")
                /\ pc = "convert_index" =>
                      h.infile = IndexMdPath /\ h.outfile = IndexHtmlPath
                /\ OnlyChanged({h.outfile})
                /\ h.status # "ok" =>
                      /\ pc' = "exited"
                      /\ exit_status' \notin {None, Some(ExitSuccess)}
                      /\ disk' = disk
                      /\ article_data' = article_data

(* C7: in directory mode the stages run in the order enumeration, conversion
   of each document in enumeration order, sort, load of the index
   configuration, write of index.md, conversion to index.html; when the
   conversion of the k-th document fails the process ends at once: the outputs
   written for the documents before it stay as written and nothing is written
   afterwards for a later document, for index.md or for index.html. *)
C7_StagesInOrderFailFast == [][C7_Step]_vars

C7_Witness ==
    /\ input_kind = "dir"
    /\ pc = "exited" /\ exit_status # Some(ExitSuccess)
    /\ Len(history) = 2
    /\ history[1].status = "ok"
    /\ history[1].before = File(<<Text("old")>>)
    /\ disk[history[1].outfile] = history[1].after
    /\ history[2].status # "ok"
    /\ history[2].infile = DocPath(2)
    /\ disk[set_extension(DocPath(2), "html")] = File(<<Text("old")>>)
    /\ disk[IndexHtmlPath] = File(<<Text("old")>>)
    /\ disk[IndexMdPath] = File(<<[t |-> "# <center>", title |-> "Old"], NL>>)

====
